---- MODULE Spec2Model ----
(***************************************************************************)
(* quart-auth: the per-scope coordinator (QuartAuth), its token codec, the *)
(* ambient entry points of globals.py and the request/websocket hooks, as  *)
(* a state machine over one test client and the requests it has in flight. *)
(*                                                                         *)
(* Abstractions, all stated where they are made:                           *)
(*  - a token is the triple (payload, timestamp, signature); the HMAC of   *)
(*    itsdangerous is the tuple of what it signs (secret, salt, payload,   *)
(*    timestamp), so two signatures agree iff all four inputs agree; the   *)
(*    signature travels as base64 text, whose last character has spare     *)
(*    bits;                                                                *)
(*  - time is a bounded counter and the credential duration is scaled to   *)
(*    a few ticks;                                                         *)
(*  - Python's None is the string "None".                                  *)
(***************************************************************************)
EXTENDS Integers, Sequences, FiniteSets, TLC

VARIABLES
    app,       \* the Quart app: config, extensions["QUART_AUTH"], after-hooks
    now,       \* the clock itsdangerous stamps and checks tokens with
    jar,       \* the test client's cookie jar: cookie name -> [token, expires]
    session,   \* history: per scope, the last login/logout the client completed
    req,       \* per slot: the request/websocket context being processed
    codec,     \* the token last made by dump_token and what load_token made of it
    test_client \* the test client: its authenticated_client context, if it is in one

vars == <<app, now, jar, session, req, codec, test_client>>

(* ------------------------------ bounds -------------------------------- *)

\* the clock runs 0..MaxTime
MaxTime == 2
\* QUART_AUTH_DURATION, scaled from one year to ticks of the clock
Duration == 1
\* handler steps (reads, guards, mutations) per request
MaxOps == 2
\* coordinators registered on one app, where registration is a step
MaxScopes == 3

(* ----------------------------- constants ------------------------------ *)

None == "None"
AuthIds == {"1", "2"}
Actions == {"DELETE", "PASS", "WRITE", "WRITE_PERMANENT"}
AppSecret == "Secret"
OtherSecret == "NotTheSecret"
Slots == {1}
Kinds == {"request", "websocket"}

\* extension.py DEFAULTS
DEFAULTS ==
    [QUART_AUTH_ATTRIBUTE_NAME |-> "_quart_auth_user",
     QUART_AUTH_COOKIE_DOMAIN |-> None,
     QUART_AUTH_COOKIE_NAME |-> "QUART_AUTH",
     QUART_AUTH_COOKIE_PATH |-> "/",
     QUART_AUTH_COOKIE_HTTP_ONLY |-> TRUE,
     QUART_AUTH_COOKIE_SAMESITE |-> "Lax",
     QUART_AUTH_COOKIE_SECURE |-> TRUE,
     QUART_AUTH_DURATION |-> Duration,
     QUART_AUTH_MODE |-> "cookie",
     QUART_AUTH_SALT |-> "quart auth salt"]

get_config_or_default(config_key, config) ==
    IF config_key \in DOMAIN config THEN config[config_key]
    ELSE DEFAULTS[config_key]

(* --------------------------- the token codec -------------------------- *)

\* the signature segment of a token is unpadded url-safe base64 of the 64 bytes
\* of the HMAC: 86 characters, the last of which carries two bits of the
\* signature and four spare bits, zero as written by the encoder
base64_encode(bytes) == [bytes |-> bytes, spare |-> 0]

\* base64.urlsafe_b64decode: the spare bits of the last character are dropped
base64_decode(text) == text.bytes

\* mutant of Sign: the salt is not part of the key
Sign_unsalted(secret, salt, payload, ts) == <<secret, "", payload, ts>>

\* the signature _AuthSerializer computes: HMAC-SHA512 keyed by secret and salt
\* over payload and timestamp
Sign(secret, salt, payload, ts) == <<secret, salt, payload, ts>>

\* serializer.dumps(auth_id) at time t
dumps(secret, salt, auth_id, t) ==
    [payload |-> auth_id, ts |-> t, sig |-> base64_encode(Sign(secret, salt, auth_id, t))]

\* mutant of loads: a token expires one tick early (age >= max_age)
loads_expires_early(secret, salt, token, max_age, t) ==
    IF base64_decode(token.sig) # Sign(secret, salt, token.payload, token.ts)
    THEN [exc |-> "BadSignature", value |-> None]
    ELSE IF t - token.ts >= max_age \/ t - token.ts < 0
    THEN [exc |-> "SignatureExpired", value |-> None]
    ELSE [exc |-> "none", value |-> token.payload]

\* serializer.loads(token, max_age) at time t: the signature first, then the age
loads(secret, salt, token, max_age, t) ==
    IF base64_decode(token.sig) # Sign(secret, salt, token.payload, token.ts)
    THEN [exc |-> "BadSignature", value |-> None]
    ELSE IF t - token.ts > max_age \/ t - token.ts < 0
    THEN [exc |-> "SignatureExpired", value |-> None]
    ELSE [exc |-> "none", value |-> token.payload]

\* text with no separator and no signature, and the empty string
GarbageToken == [payload |-> None, ts |-> 0, sig |-> base64_encode(<<"garbage">>)]
EmptyToken == [payload |-> None, ts |-> 0, sig |-> base64_encode(<<>>)]

(* ------------------------------ identity ------------------------------ *)

\* AuthUser(auth_id, action)
AuthUser(auth_id, action) == [auth_id |-> auth_id, action |-> action]

is_authenticated(user) == user.auth_id # None

(* --------------------------- registration ----------------------------- *)

\* no token has been dumped or loaded
NoCodec == [dumped |-> <<>>, loaded |-> <<>>]

\* app.test_client(use_cookies): outside any authenticated_client context
TestClient(use_cookies) ==
    [cookie_jar |-> use_cookies, asked |-> <<>>, authenticated |-> <<>>, left |-> <<>>,
     exc |-> "none"]

\* QuartAuth.__init__: the keyword arguments given; singleton defaults to True
QuartAuth(args) ==
    IF "singleton" \in DOMAIN args THEN args ELSE ("singleton" :> TRUE) @@ args

Arg(self, name, config_key, config) ==
    IF name \in DOMAIN self THEN self[name]
    ELSE get_config_or_default(config_key, config)

\* init_app, lines 117-136: every attribute left None is read from the app
\* config, else from DEFAULTS
Configured(self, config) ==
    [attribute_name |-> Arg(self, "attribute_name", "QUART_AUTH_ATTRIBUTE_NAME", config),
     cookie_domain |-> Arg(self, "cookie_domain", "QUART_AUTH_COOKIE_DOMAIN", config),
     cookie_name |-> Arg(self, "cookie_name", "QUART_AUTH_COOKIE_NAME", config),
     cookie_path |-> Arg(self, "cookie_path", "QUART_AUTH_COOKIE_PATH", config),
     cookie_http_only |-> Arg(self, "cookie_http_only", "QUART_AUTH_COOKIE_HTTP_ONLY", config),
     cookie_samesite |-> Arg(self, "cookie_samesite", "QUART_AUTH_COOKIE_SAMESITE", config),
     cookie_secure |-> Arg(self, "cookie_secure", "QUART_AUTH_COOKIE_SECURE", config),
     duration |-> Arg(self, "duration", "QUART_AUTH_DURATION", config),
     mode |-> Arg(self, "mode", "QUART_AUTH_MODE", config),
     salt |-> Arg(self, "salt", "QUART_AUTH_SALT", config),
     singleton |-> self.singleton]

\* mutant of init_app: the collision test compares the salt only
init_app_salt_only(self, a) ==
    LET ext == Configured(self, a.config)
        clash == \E i \in 1..Len(a.extensions) : a.extensions[i].salt = ext.salt
        extensions == Append(a.extensions, ext)
        n == Len(extensions)
        singletons == Cardinality({i \in 1..n : extensions[i].singleton})
    IN  IF singletons > 2
        THEN [a EXCEPT !.extensions = extensions,
                       !.warned = IF clash THEN a.warned \cup {n} ELSE a.warned,
                       !.raised = a.raised \cup {n}]
        ELSE [a EXCEPT !.extensions = extensions,
                       !.warned = IF clash THEN a.warned \cup {n} ELSE a.warned,
                       !.after_request_funcs = Append(a.after_request_funcs, n)]

\* init_app on an app [config, secret_key, extensions, warned, after_request_funcs,
\* raised]: the collision warning, the append, the singleton check, the hooks
init_app(self, a) ==
    LET ext == Configured(self, a.config)
        clash == \E i \in 1..Len(a.extensions) :
                    \/ a.extensions[i].attribute_name = ext.attribute_name
                    \/ a.extensions[i].cookie_name = ext.cookie_name
                    \/ a.extensions[i].salt = ext.salt
        extensions == Append(a.extensions, ext)
        n == Len(extensions)
        singletons == Cardinality({i \in 1..n : extensions[i].singleton})
    IN  IF singletons > 2
        THEN [a EXCEPT !.extensions = extensions,
                       !.warned = IF clash THEN a.warned \cup {n} ELSE a.warned,
                       !.raised = a.raised \cup {n}]
        ELSE [a EXCEPT !.extensions = extensions,
                       !.warned = IF clash THEN a.warned \cup {n} ELSE a.warned,
                       !.after_request_funcs = Append(a.after_request_funcs, n)]

\* Quart(__name__) with app.config and app.secret_key set
Quart(config) ==
    [config |-> config, secret_key |-> AppSecret, extensions |-> <<>>,
     warned |-> {}, after_request_funcs |-> <<>>, raised |-> {}]

RECURSIVE Register(_, _)
Register(a, ctors) ==
    IF ctors = <<>> THEN a
    ELSE Register(init_app(QuartAuth(Head(ctors)), a), Tail(ctors))

\* the apps the tests build: test_basic.py (one default scope) beside a second,
\* named scope as in test_multiple.py; and test_bearer.py (bearer by app config)
\* beside a cookie-mode named scope
AdminArgs ==
    [attribute_name |-> "admin", cookie_name |-> "ADMIN", salt |-> "admin salt",
     cookie_path |-> "/admin", cookie_domain |-> "admin.example", singleton |-> FALSE]
NoArgs == [x \in {} |-> TRUE]
Deployments ==
    {[config |-> NoArgs, ctors |-> <<NoArgs, AdminArgs>>],
     [config |-> [QUART_AUTH_MODE |-> "bearer"],
      ctors |-> <<NoArgs, ("mode" :> "cookie") @@ AdminArgs>>]}

Scopes == 1..Len(app.extensions)

(* ------------------- the per-scope coordinator ------------------------ *)

has_request_context(q) == q.kind = "request"
has_websocket_context(q) == q.kind = "websocket"

\* an Authorization header is its first six characters and the rest, which is
\* optional leading whitespace and a token; str.lower on the six characters
Lower(prefix) == IF prefix \in {"bearer", "Bearer", "BEARER"} THEN "bearer" ELSE prefix
Strip(rest) == rest.token

\* mutant of dump_token: the serializer is built with the default salt
dump_token_default_salt(self, auth_id) ==
    dumps(app.secret_key, DEFAULTS.QUART_AUTH_SALT, auth_id, now)

dump_token(self, auth_id) == dumps(app.secret_key, self.salt, auth_id, now)

\* mutant of load_token: loads is called without max_age, no token expires
load_token_no_max_age(self, token) ==
    LET r == loads(app.secret_key, self.salt, token, MaxTime + 1, now)
    IN  IF r.exc \in {"BadSignature", "SignatureExpired"}
        THEN [value |-> None, raised |-> "none", decoded |-> TRUE]
        ELSE [value |-> r.value, raised |-> r.exc, decoded |-> TRUE]

\* mutant of load_token: no except clause, the serializer's errors propagate
load_token_uncaught(self, token) ==
    LET r == loads(app.secret_key, self.salt, token, self.duration, now)
    IN  [value |-> r.value, raised |-> r.exc, decoded |-> TRUE]

load_token(self, token) ==
    LET r == loads(app.secret_key, self.salt, token, self.duration, now)
    IN  IF r.exc \in {"BadSignature", "SignatureExpired"}
        THEN [value |-> None, raised |-> "none", decoded |-> TRUE]
        ELSE [value |-> r.value, raised |-> r.exc, decoded |-> TRUE]

load_cookie(self, q) ==
    IF has_request_context(q) \/ has_websocket_context(q)
    THEN IF self.cookie_name \notin DOMAIN q.cookies
         THEN [value |-> None, raised |-> "none", decoded |-> FALSE]
         ELSE load_token(self, q.cookies[self.cookie_name])
    ELSE load_token(self, EmptyToken)

load_bearer(self, q) ==
    IF has_request_context(q) \/ has_websocket_context(q)
    THEN IF "Authorization" \notin DOMAIN q.headers
         THEN [value |-> None, raised |-> "none", decoded |-> FALSE]
         ELSE LET raw == q.headers["Authorization"]
              IN  IF Lower(raw.prefix) # "bearer"
                  THEN [value |-> None, raised |-> "none", decoded |-> FALSE]
                  ELSE load_token(self, Strip(raw.rest))
    ELSE [value |-> None, raised |-> "UnboundLocalError", decoded |-> FALSE]

\* mutant of resolve_user: a resolved identity is to be written back
resolve_user_writes_back(self, q) ==
    LET r == IF self.mode = "cookie" THEN load_cookie(self, q) ELSE load_bearer(self, q)
    IN  [user |-> AuthUser(r.value, IF r.value = None THEN "PASS" ELSE "WRITE"),
         raised |-> r.raised, decoded |-> r.decoded]

\* mutant of resolve_user: the cookie is read whatever the mode
resolve_user_reads_cookie(self, q) ==
    LET r == load_cookie(self, q)
    IN  [user |-> AuthUser(r.value, "PASS"), raised |-> r.raised, decoded |-> r.decoded]

resolve_user(self, q) ==
    LET r == IF self.mode = "cookie" THEN load_cookie(self, q) ELSE load_bearer(self, q)
    IN  [user |-> AuthUser(r.value, "PASS"), raised |-> r.raised, decoded |-> r.decoded]

\* mutant of load_user: the identity is resolved on every access
load_user_resolves_again(self, q) ==
    IF has_request_context(q) \/ has_websocket_context(q)
    THEN LET r == resolve_user(self, q)
         IN  IF r.raised # "none"
             THEN [q |-> [q EXCEPT !.exc = r.raised], user |-> AuthUser(None, "PASS")]
             ELSE [q |-> [q EXCEPT !.ctx = (self.attribute_name :> r.user) @@ @,
                                   !.decodes = @ + (IF r.decoded THEN 1 ELSE 0)],
                   user |-> r.user]
    ELSE [q |-> q, user |-> AuthUser(None, "PASS")]

\* mutant of load_user: every scope memoizes under the default attribute name
load_user_shared_attribute(self, q) ==
    LET name == DEFAULTS.QUART_AUTH_ATTRIBUTE_NAME
    IN  IF has_request_context(q) \/ has_websocket_context(q)
        THEN IF name \notin DOMAIN q.ctx
             THEN LET r == resolve_user(self, q)
                  IN  IF r.raised # "none"
                      THEN [q |-> [q EXCEPT !.exc = r.raised], user |-> AuthUser(None, "PASS")]
                      ELSE [q |-> [q EXCEPT !.ctx = (name :> r.user) @@ @,
                                            !.decodes = @ + (IF r.decoded THEN 1 ELSE 0)],
                            user |-> r.user]
             ELSE [q |-> q, user |-> q.ctx[name]]
        ELSE [q |-> q, user |-> AuthUser(None, "PASS")]

\* load_user: the memoized identity of the context, resolved on first access.
\* Returns the context as it is left and the identity read.
load_user(self, q) ==
    IF has_request_context(q) \/ has_websocket_context(q)
    THEN IF self.attribute_name \notin DOMAIN q.ctx
         THEN LET r == resolve_user(self, q)
              IN  IF r.raised # "none"
                  THEN [q |-> [q EXCEPT !.exc = r.raised], user |-> AuthUser(None, "PASS")]
                  ELSE [q |-> [q EXCEPT !.ctx = (self.attribute_name :> r.user) @@ @,
                                        !.decodes = @ + (IF r.decoded THEN 1 ELSE 0)],
                        user |-> r.user]
         ELSE [q |-> q, user |-> q.ctx[self.attribute_name]]
    ELSE [q |-> q, user |-> AuthUser(None, "PASS")]

\* mutant of QuartAuth.login_user: an identity already memoized is kept
login_user_keeps_first(self, q, user) ==
    IF has_request_context(q)
    THEN IF self.attribute_name \in DOMAIN q.ctx THEN q
         ELSE [q EXCEPT !.ctx = (self.attribute_name :> user) @@ @]
    ELSE [q EXCEPT !.exc = "RuntimeError"]

\* QuartAuth.login_user
QuartAuth_login_user(self, q, user) ==
    IF has_request_context(q)
    THEN [q EXCEPT !.ctx = (self.attribute_name :> user) @@ @]
    ELSE [q EXCEPT !.exc = "RuntimeError"]

\* mutant of QuartAuth.logout_user: the action is left at its default
logout_user_keeps_pass(self, q) ==
    LET user == AuthUser(None, "PASS")
    IN  IF has_request_context(q)
        THEN [q EXCEPT !.ctx = (self.attribute_name :> user) @@ @]
        ELSE [q EXCEPT !.exc = "RuntimeError"]

\* QuartAuth.logout_user
QuartAuth_logout_user(self, q) ==
    LET user == [AuthUser(None, "PASS") EXCEPT !.action = "DELETE"]
    IN  IF has_request_context(q)
        THEN [q EXCEPT !.ctx = (self.attribute_name :> user) @@ @]
        ELSE [q EXCEPT !.exc = "RuntimeError"]

(* ----------------------- reconcile: the after-hooks ------------------- *)

NoMaxAge == <<>>

\* response.set_cookie(name, token, domain, max_age, httponly, path, secure, samesite)
set_cookie(self, token, max_age) ==
    [op |-> "set", name |-> self.cookie_name, token |-> token, max_age |-> max_age,
     domain |-> self.cookie_domain, path |-> self.cookie_path,
     httponly |-> self.cookie_http_only, secure |-> self.cookie_secure,
     samesite |-> self.cookie_samesite]

\* response.delete_cookie(name, domain, httponly, path, secure, samesite): an
\* empty value that expires at once
delete_cookie(self) ==
    [op |-> "delete", name |-> self.cookie_name, token |-> EmptyToken, max_age |-> <<0>>,
     domain |-> self.cookie_domain, path |-> self.cookie_path,
     httponly |-> self.cookie_http_only, secure |-> self.cookie_secure,
     samesite |-> self.cookie_samesite]

BearerWarning == "Login/logout/renew have no affect in bearer mode"
SecureWarning == "Secure cookies will be ignored on insecure requests"
StrictWarning == "Strict samesite cookies will be ignored on redirects"
WebsocketMayWarning == "The auth cookie may not be set by the client."
WebsocketCannotWarning == "The auth cookie cannot be set by the client."

\* mutants of cookie_max_age: the expiry set whatever the action, and never set
cookie_max_age_always(self, user) == <<self.duration>>
cookie_max_age_never(self, user) == NoMaxAge

\* after_request, lines 230-232
cookie_max_age(self, user) ==
    IF user.action = "WRITE_PERMANENT" THEN <<self.duration>> ELSE NoMaxAge

\* mutant of after_request: a pending Delete leaves the cookie alone
after_request_keeps_cookie(self, q0, is_secure, is_redirect) ==
    LET lu == load_user(self, q0)
        q == lu.q
        user == lu.user
    IN  IF self.mode = "bearer" \/ user.action \notin {"WRITE", "WRITE_PERMANENT"}
        THEN q
        ELSE [q EXCEPT !.response =
                 Append(@, set_cookie(self, dump_token(self, user.auth_id),
                                      cookie_max_age(self, user)))]

\* mutant of after_request: no bearer-mode branch
after_request_any_mode(self, q0, is_secure, is_redirect) ==
    LET lu == load_user(self, q0)
        q == lu.q
        user == lu.user
    IN  IF user.action = "DELETE"
        THEN [q EXCEPT !.response = Append(@, delete_cookie(self))]
        ELSE IF user.action \in {"WRITE", "WRITE_PERMANENT"}
        THEN [q EXCEPT !.response =
                 Append(@, set_cookie(self, dump_token(self, user.auth_id),
                                      cookie_max_age(self, user)))]
        ELSE q

after_request(self, q0, is_secure, is_redirect) ==
    LET lu == load_user(self, q0)
        q == lu.q
        user == lu.user
    IN  IF self.mode = "bearer"
        THEN IF user.action # "PASS"
             THEN [q EXCEPT !.warnings = @ \cup {BearerWarning}]
             ELSE q
        ELSE IF user.action = "DELETE"
        THEN [q EXCEPT !.response = Append(@, delete_cookie(self))]
        ELSE IF user.action \in {"WRITE", "WRITE_PERMANENT"}
        THEN LET max_age == cookie_max_age(self, user)
                 w1 == IF self.cookie_secure /\ ~is_secure THEN {SecureWarning} ELSE {}
                 w2 == IF self.cookie_samesite = "Strict" /\ is_redirect
                       THEN {StrictWarning} ELSE {}
                 token == dump_token(self, user.auth_id)
             IN  [q EXCEPT !.warnings = @ \cup w1 \cup w2,
                           !.response = Append(@, set_cookie(self, token, max_age))]
        ELSE q

after_websocket(self, q0, has_response) ==
    LET lu == load_user(self, q0)
        q == lu.q
        user == lu.user
    IN  IF self.mode = "bearer"
        THEN IF user.action # "PASS"
             THEN [q EXCEPT !.warnings = @ \cup {BearerWarning}]
             ELSE q
        ELSE IF user.action # "PASS"
        THEN IF has_response
             THEN [q EXCEPT !.warnings = @ \cup {WebsocketMayWarning}]
             ELSE [q EXCEPT !.warnings = @ \cup {WebsocketCannotWarning}]
        ELSE q

(* ------------------- the ambient entry points (globals.py) ------------ *)

\* _find_extension: the first registered singleton scope, 0 when there is none
\* (RuntimeError)
find_extension ==
    LET S == {i \in 1..Len(app.extensions) : app.extensions[i].singleton}
    IN  IF S = {} THEN 0 ELSE CHOOSE i \in S : \A j \in S : i <= j

\* what _find_extension raises when it returns no scope: app.extensions["QUART_AUTH"]
\* is a KeyError on an app no coordinator was registered on, else the search
\* finds no singleton and the RuntimeError is raised
find_extension_error ==
    IF app.extensions = <<>> THEN "KeyError" ELSE "RuntimeError"

\* login_user(user, remember)
login_user(q, user, remember) ==
    LET u == [user EXCEPT !.action = IF remember THEN "WRITE_PERMANENT" ELSE "WRITE"]
        e == find_extension
    IN  IF e = 0 THEN [q EXCEPT !.exc = find_extension_error]
        ELSE QuartAuth_login_user(app.extensions[e], q, u)

\* logout_user()
logout_user(q) ==
    LET e == find_extension
    IN  IF e = 0 THEN [q EXCEPT !.exc = find_extension_error]
        ELSE QuartAuth_logout_user(app.extensions[e], q)

\* mutant of renew_login: the action becomes WRITE, a session cookie
renew_login_session(q) ==
    LET e == find_extension
    IN  IF e = 0 THEN [q EXCEPT !.exc = find_extension_error]
        ELSE LET self == app.extensions[e]
                 lu == load_user(self, q)
             IN  IF lu.q.exc # "none" THEN lu.q
                 ELSE IF self.attribute_name \in DOMAIN lu.q.ctx
                 THEN [lu.q EXCEPT !.ctx[self.attribute_name].action = "WRITE"]
                 ELSE lu.q

\* renew_login(): current_user.action = WRITE_PERMANENT, on the object that
\* load_user returns (outside a context that object is a throw-away)
renew_login(q) ==
    LET e == find_extension
    IN  IF e = 0 THEN [q EXCEPT !.exc = find_extension_error]
        ELSE LET self == app.extensions[e]
                 lu == load_user(self, q)
             IN  IF lu.q.exc # "none" THEN lu.q
                 ELSE IF self.attribute_name \in DOMAIN lu.q.ctx
                 THEN [lu.q EXCEPT !.ctx[self.attribute_name].action = "WRITE_PERMANENT"]
                 ELSE lu.q

\* what the wrapped handler returns
HandlerResult == "auth"

\* mutant of the wrapper: the handler runs before the identity is checked
guard_runs_first(self, q) ==
    LET lu == load_user(self, q)
    IN  IF lu.q.exc # "none" THEN lu.q
        ELSE IF ~is_authenticated(lu.user)
        THEN [lu.q EXCEPT !.runs = @ + 1, !.exc = "Unauthorized"]
        ELSE [lu.q EXCEPT !.runs = @ + 1, !.returned = HandlerResult]

\* the wrapper of login_required around a handler, for the coordinator the
\* proxy reads (current_user reads the singleton; test_multiple.py binds a
\* proxy and the same wrapper to each of its scopes)
guard(self, q) ==
    LET lu == load_user(self, q)
    IN  IF lu.q.exc # "none" THEN lu.q
        ELSE IF ~is_authenticated(lu.user)
        THEN [lu.q EXCEPT !.exc = "Unauthorized"]
        ELSE [lu.q EXCEPT !.runs = @ + 1, !.returned = HandlerResult]

login_required(q) ==
    LET e == find_extension
    IN  IF e = 0 THEN [q EXCEPT !.exc = find_extension_error]
        ELSE guard(app.extensions[e], q)

(* --------------------- the client and its requests -------------------- *)

NoMutation == [op |-> "none", auth_id |-> None, action |-> "PASS", renewed |-> FALSE]

IdleRequest ==
    [stage |-> "idle", kind |-> "request", client |-> TRUE,
     cookies |-> <<>>, headers |-> <<>>, ctx |-> <<>>,
     ops |-> 0, exc |-> "none", runs |-> 0, returned |-> None,
     response |-> <<>>, warnings |-> {}, decodes |-> 0,
     last |-> <<>>]

NoSession == [state |-> "none", at |-> 0]

\* the cookies the client sends: those of its jar that have not expired
SentCookies ==
    LET live == {n \in DOMAIN jar : jar[n].expires = <<>> \/ now <= jar[n].expires[1]}
    IN  [n \in live |-> jar[n].token]

BearerHeader(prefix, lead, token) ==
    ("Authorization" :> [prefix |-> prefix, rest |-> [lead |-> lead, token |-> token]])

\* generate_auth_token(client, auth_id): a token of the singleton scope
generate_auth_token(auth_id) == dump_token(app.extensions[find_extension], auth_id)

\* the Authorization headers a client of a bearer-mode app sends: none, or
\* "bearer <token>" with a token it was just given
SentHeaders ==
    IF \E i \in Scopes : app.extensions[i].mode = "bearer"
    THEN {<<>>} \cup {BearerHeader("bearer", " ", generate_auth_token(a)) : a \in AuthIds}
    ELSE {<<>>}

Open(kind, client, cookies, headers) ==
    [IdleRequest EXCEPT !.stage = "open", !.kind = kind, !.client = client,
                        !.cookies = cookies, !.headers = headers,
                        !.last = [i \in Scopes |-> NoMutation]]

\* the client sends a request, or opens a websocket, with the cookies of its jar
BeginRequest(r) ==
    /\ req[r].stage = "idle"
    /\ \E kind \in Kinds, headers \in SentHeaders :
          req' = [req EXCEPT ![r] = Open(kind, TRUE, SentCookies, headers)]
    /\ UNCHANGED <<app, now, jar, session, codec, test_client>>

\* the token texts a request can carry: tokens signed with the app's secret or
\* another under each scope's salt, at any time up to now; a signed token whose
\* payload or timestamp was then changed; text that is no token; the empty string
Salts == {app.extensions[i].salt : i \in Scopes}
TokenInputs ==
    {dumps(AppSecret, salt, a, t) : salt \in Salts, a \in AuthIds, t \in 0..now}
    \cup {dumps(OtherSecret, salt, "1", now) : salt \in Salts}
    \cup {[dumps(AppSecret, salt, "1", now) EXCEPT !.payload = "2"] : salt \in Salts}
    \cup {[dumps(AppSecret, salt, "1", 0) EXCEPT !.ts = now] : salt \in Salts}
    \cup {GarbageToken, EmptyToken}

CookieInputs ==
    {<<>>} \cup {(app.extensions[i].cookie_name :> token) : i \in Scopes, token \in TokenInputs}

HeaderInputs ==
    IF \E i \in Scopes : app.extensions[i].mode = "bearer"
    THEN {<<>>}
         \cup {BearerHeader("bearer", " ", token) : token \in TokenInputs}
         \cup {BearerHeader(prefix, " ", dump_token(app.extensions[i], "1")) :
                  prefix \in {"Bearer", "basic "}, i \in Scopes}
    ELSE {<<>>}

\* a request or websocket arrives carrying one credential, or none
Arrive(r) ==
    /\ req[r].stage = "idle"
    /\ \E kind \in Kinds, cookies \in CookieInputs, headers \in HeaderInputs :
          /\ cookies = <<>> \/ headers = <<>>
          /\ req' = [req EXCEPT ![r] = Open(kind, FALSE, cookies, headers)]
    /\ UNCHANGED <<app, now, jar, session, codec, test_client>>

Handling(r) ==
    /\ req[r].stage = "open"
    /\ req[r].exc = "none"
    /\ req[r].ops < MaxOps

Put(r, q) ==
    /\ req' = [req EXCEPT ![r] = [q EXCEPT !.ops = @ + 1]]
    /\ UNCHANGED <<app, now, jar, session, codec, test_client>>

\* the mutation recorded for scope i when the call did not raise
Mutated(q, i, m) == IF q.exc = "none" THEN [q EXCEPT !.last[i] = m] ELSE q

\* the handler reads current_user
CurrentUser(r) ==
    /\ Handling(r)
    /\ LET e == find_extension
       IN  IF e = 0 THEN Put(r, [req[r] EXCEPT !.exc = find_extension_error])
           ELSE Put(r, load_user(app.extensions[e], req[r]).q)

\* the handler reads a scope's identity: auth.load_user()
LoadUser(r, i) ==
    /\ Handling(r)
    /\ Put(r, load_user(app.extensions[i], req[r]).q)

\* the handler calls login_user(AuthUser(a), remember)
LoginUser(r, a, remember) ==
    /\ Handling(r)
    /\ LET q == login_user(req[r], AuthUser(a, "PASS"), remember)
           e == find_extension
           act == IF remember THEN "WRITE_PERMANENT" ELSE "WRITE"
       IN  IF e = 0 THEN Put(r, q)
           ELSE Put(r, Mutated(q, e, [op |-> "login", auth_id |-> a,
                                      action |-> act, renewed |-> FALSE]))

\* the handler calls auth.login_user(AuthUser(a, action)) on a scope
ExtLoginUser(r, i, a, action) ==
    /\ Handling(r)
    /\ LET q == QuartAuth_login_user(app.extensions[i], req[r], AuthUser(a, action))
       IN  Put(r, Mutated(q, i, [op |-> "ext_login", auth_id |-> a,
                                 action |-> action, renewed |-> FALSE]))

\* the handler calls logout_user()
LogoutUser(r) ==
    /\ Handling(r)
    /\ LET q == logout_user(req[r])
           e == find_extension
       IN  IF e = 0 THEN Put(r, q)
           ELSE Put(r, Mutated(q, e, [op |-> "logout", auth_id |-> None,
                                      action |-> "DELETE", renewed |-> FALSE]))

\* the handler calls auth.logout_user() on a scope
ExtLogoutUser(r, i) ==
    /\ Handling(r)
    /\ LET q == QuartAuth_logout_user(app.extensions[i], req[r])
       IN  Put(r, Mutated(q, i, [op |-> "logout", auth_id |-> None,
                                 action |-> "DELETE", renewed |-> FALSE]))

\* the handler calls renew_login()
RenewLogin(r) ==
    /\ Handling(r)
    /\ LET q == renew_login(req[r])
           e == find_extension
       IN  IF e = 0 THEN Put(r, q)
           ELSE Put(r, Mutated(q, e, [req[r].last[e] EXCEPT !.renewed = TRUE]))

\* the request is routed to a handler wrapped by login_required
LoginRequired(r) ==
    /\ Handling(r)
    /\ Put(r, login_required(req[r]))

\* the request is routed to a handler wrapped for one scope (test_multiple.py)
ScopeLoginRequired(r, i) ==
    /\ Handling(r)
    /\ Put(r, guard(app.extensions[i], req[r]))

\* Quart runs the registered after_request functions, last registered first
RECURSIVE process_response(_, _, _, _)
process_response(q, funcs, is_secure, is_redirect) ==
    IF funcs = <<>> THEN q
    ELSE process_response(
             after_request(app.extensions[funcs[Len(funcs)]], q, is_secure, is_redirect),
             SubSeq(funcs, 1, Len(funcs) - 1), is_secure, is_redirect)

RECURSIVE postprocess_websocket(_, _, _)
postprocess_websocket(q, funcs, has_response) ==
    IF funcs = <<>> THEN q
    ELSE postprocess_websocket(
             after_websocket(app.extensions[funcs[Len(funcs)]], q, has_response),
             SubSeq(funcs, 1, Len(funcs) - 1), has_response)

\* the handler has returned or raised: the response is reconciled and sent
AfterRequest(r) ==
    /\ req[r].stage = "open"
    /\ req[r].kind = "request"
    /\ \E is_secure \in BOOLEAN, is_redirect \in BOOLEAN :
          req' = [req EXCEPT ![r] =
                    [process_response(req[r], app.after_request_funcs, is_secure, is_redirect)
                        EXCEPT !.stage = "closed"]]
    /\ UNCHANGED <<app, now, jar, session, codec, test_client>>

AfterWebsocket(r) ==
    /\ req[r].stage = "open"
    /\ req[r].kind = "websocket"
    /\ \E has_response \in BOOLEAN :
          req' = [req EXCEPT ![r] =
                    [postprocess_websocket(req[r], app.after_request_funcs, has_response)
                        EXCEPT !.stage = "closed"]]
    /\ UNCHANGED <<app, now, jar, session, codec, test_client>>

\* the client's jar after one Set-Cookie header
Store(j, d) ==
    IF d.op = "delete" THEN [n \in DOMAIN j \ {d.name} |-> j[n]]
    ELSE (d.name :> [token |-> d.token,
                     expires |-> IF d.max_age = NoMaxAge THEN <<>>
                                 ELSE <<now + d.max_age[1]>>]) @@ j

RECURSIVE StoreAll(_, _)
StoreAll(j, ds) == IF ds = <<>> THEN j ELSE StoreAll(Store(j, Head(ds)), Tail(ds))

\* history: what the request's last login or logout call leaves the client in
Completed(s, m) ==
    IF m.op = "logout" THEN [state |-> "out", at |-> now]
    ELSE IF m.op = "login"
            \/ (m.op = "ext_login" /\ (m.renewed \/ m.action \in {"WRITE", "WRITE_PERMANENT"}))
    THEN [state |-> "in", at |-> now]
    ELSE s

\* the client takes the response: its Set-Cookie headers update the jar
Deliver(r) ==
    /\ req[r].stage = "closed"
    /\ jar' = IF req[r].client THEN StoreAll(jar, req[r].response) ELSE jar
    /\ session' = IF req[r].client /\ req[r].kind = "request"
                  THEN [i \in Scopes |-> Completed(session[i], req[r].last[i])]
                  ELSE session
    /\ req' = [req EXCEPT ![r] = IdleRequest]
    /\ UNCHANGED <<app, now, codec, test_client>>

Quiet == \A r \in Slots : req[r].stage = "idle"

\* time passes between requests: a request is handled, and its response taken,
\* within one tick of the clock
Tick ==
    /\ now < MaxTime
    /\ Quiet
    /\ now' = now + 1
    /\ UNCHANGED <<app, jar, session, req, codec, test_client>>

Init ==
    /\ app \in {Register(Quart(d.config), d.ctors) : d \in Deployments}
    /\ now = 0
    /\ jar = <<>>
    /\ session = [i \in 1..Len(app.extensions) |-> NoSession]
    /\ req = [r \in Slots |-> IdleRequest]
    /\ codec = NoCodec
    /\ test_client = TestClient(TRUE)

\* the users a handler logs in: the client's own account for the client's
\* requests, any user for a request from elsewhere
ClientUser == "1"
Users(r) == IF req[r].client THEN {ClientUser} ELSE AuthIds

Handle(r) ==
    \/ CurrentUser(r)
    \/ \E i \in Scopes : LoadUser(r, i)
    \/ \E a \in Users(r), remember \in BOOLEAN : LoginUser(r, a, remember)
    \/ \E i \in Scopes, a \in Users(r), action \in Actions \ {"DELETE"} :
          ExtLoginUser(r, i, a, action)
    \/ LogoutUser(r)
    \/ \E i \in Scopes : ExtLogoutUser(r, i)
    \/ RenewLogin(r)
    \/ LoginRequired(r)
    \/ \E i \in Scopes : ScopeLoginRequired(r, i)
    \/ AfterRequest(r)
    \/ AfterWebsocket(r)
    \/ Deliver(r)

\* requests carrying any credential, one at a time
Next ==
    \/ \E r \in Slots : Arrive(r)
    \/ \E r \in Slots : Handle(r)
    \/ Tick

Spec == Init /\ [][Next]_vars

\* one client with a cookie jar against a cookie-mode app: its requests carry
\* the jar's cookies and their responses update it
CookieDeployments == {d \in Deployments : "QUART_AUTH_MODE" \notin DOMAIN d.config}

InitClient ==
    /\ app \in {Register(Quart(d.config), d.ctors) : d \in CookieDeployments}
    /\ now = 0
    /\ jar = <<>>
    /\ session = [i \in 1..Len(app.extensions) |-> NoSession]
    /\ req = [r \in Slots |-> IdleRequest]
    /\ codec = NoCodec
    /\ test_client = TestClient(TRUE)

NextClient ==
    \/ \E r \in Slots : BeginRequest(r)
    \/ \E r \in Slots : Handle(r)
    \/ Tick

SpecClient == InitClient /\ [][NextClient]_vars

(* ------------------------------ claims -------------------------------- *)

Ext(i) == app.extensions[i]
HasMemo(q, i) == Ext(i).attribute_name \in DOMAIN q.ctx
Memo(q, i) == q.ctx[Ext(i).attribute_name]
\* the Set-Cookie headers of a response that name scope i's cookie
Directives(q, i) == {k \in DOMAIN q.response : q.response[k].name = Ext(i).cookie_name}
\* what a token decodes to under scope i's secret and salt, now
Decoded(i, token) == loads(app.secret_key, Ext(i).salt, token, Ext(i).duration, now)

\* C1: in cookie mode, when login(user, remember=False) is the last mutation of a
\* request, the reconciled response sets the scope's cookie with no max-age and
\* a token that decodes, under the scope's secret and salt, to user.auth_id.
C1_LoginSetsSessionCookie ==
    \A r \in Slots, i \in Scopes :
        LET q == req[r]
            m == q.last[i]
        IN  (/\ q.stage = "closed" /\ q.kind = "request"
             /\ Ext(i).mode = "cookie"
             /\ m.op = "login" /\ m.action = "WRITE" /\ ~m.renewed)
            => /\ Directives(q, i) # {}
               /\ \A k \in Directives(q, i) :
                    /\ q.response[k].op = "set"
                    /\ q.response[k].max_age = NoMaxAge
                    /\ Decoded(i, q.response[k].token) = [exc |-> "none", value |-> m.auth_id]

C1_Witness ==
    \E r \in Slots, i \in Scopes :
        /\ req[r].stage = "closed" /\ req[r].kind = "request"
        /\ Ext(i).mode = "cookie"
        /\ req[r].last[i] = [op |-> "login", auth_id |-> "2", action |-> "WRITE",
                             renewed |-> FALSE]
        /\ \E k \in Directives(req[r], i) : req[r].response[k].token.payload = "2"

\* C2: in cookie mode, when login(user, remember=True) is the last mutation of a
\* request, the reconciled response sets the scope's cookie with max-age equal to
\* the scope's duration and a token that decodes to user.auth_id.
C2_RememberSetsMaxAge ==
    \A r \in Slots, i \in Scopes :
        LET q == req[r]
            m == q.last[i]
        IN  (/\ q.stage = "closed" /\ q.kind = "request"
             /\ Ext(i).mode = "cookie"
             /\ m.op = "login" /\ m.action = "WRITE_PERMANENT" /\ ~m.renewed)
            => /\ Directives(q, i) # {}
               /\ \A k \in Directives(q, i) :
                    /\ q.response[k].op = "set"
                    /\ q.response[k].max_age = <<Ext(i).duration>>
                    /\ Decoded(i, q.response[k].token) = [exc |-> "none", value |-> m.auth_id]

C2_Witness ==
    \E r \in Slots, i \in Scopes :
        /\ req[r].stage = "closed" /\ req[r].kind = "request"
        /\ Ext(i).mode = "cookie"
        /\ req[r].last[i] = [op |-> "login", auth_id |-> "1", action |-> "WRITE_PERMANENT",
                             renewed |-> FALSE]
        /\ \E k \in Directives(req[r], i) : req[r].response[k].max_age = <<Duration>>

\* C3: in cookie mode, when logout() is the last mutation of a request, the
\* memoized identity is {auth_id: None, action: Delete}, and the reconciled
\* response clears the cookie under the scope's name, domain and path and sets
\* no token under that name.
C3_LogoutClearsCookie ==
    \A r \in Slots, i \in Scopes :
        LET q == req[r]
            m == q.last[i]
        IN  (/\ q.stage \in {"open", "closed"} /\ q.kind = "request"
             /\ Ext(i).mode = "cookie"
             /\ m.op = "logout" /\ ~m.renewed)
            => /\ HasMemo(q, i)
               /\ Memo(q, i) = [auth_id |-> None, action |-> "DELETE"]
               /\ q.stage = "closed" =>
                    /\ Directives(q, i) # {}
                    /\ \A k \in Directives(q, i) :
                         /\ q.response[k].op = "delete"
                         /\ q.response[k].domain = Ext(i).cookie_domain
                         /\ q.response[k].path = Ext(i).cookie_path

C3_Witness ==
    \E r \in Slots, i \in Scopes :
        /\ req[r].stage = "closed" /\ req[r].kind = "request"
        /\ Ext(i).mode = "cookie"
        /\ req[r].last[i].op = "logout" /\ ~req[r].last[i].renewed
        /\ Ext(i).cookie_name \in DOMAIN req[r].cookies
        /\ \E k \in Directives(req[r], i) : req[r].response[k].op = "delete"

\* C4: every request routed to a login_required handler either raises
\* Unauthorized without running the handler (the identity read has auth_id None)
\* or runs the handler exactly once and returns its result unchanged.
C4_LoginRequired ==
    [][\A r \in Slots :
          (LoginRequired(r) /\ find_extension # 0) =>
              LET u == req'[r].ctx[Ext(find_extension).attribute_name]
              IN  IF u.auth_id = None
                  THEN /\ req'[r].exc = "Unauthorized"
                       /\ req'[r].runs = req[r].runs
                       /\ req'[r].returned = req[r].returned
                  ELSE /\ req'[r].exc = "none"
                       /\ req'[r].runs = req[r].runs + 1
                       /\ req'[r].returned = HandlerResult]_vars

C4_Witness ==
    \E r \in Slots :
        /\ req[r].stage = "open" /\ req[r].ops = 1
        /\ req[r].runs = 1 /\ req[r].returned = HandlerResult
        /\ req[r].last = [i \in Scopes |-> NoMutation]
        /\ HasMemo(req[r], find_extension)
        /\ Memo(req[r], find_extension).auth_id = "1"

\* scope i has not been logged in, logged out or renewed in this request
Unmutated(q, i) == q.last[i] = NoMutation
\* the request carries no credential for scope i
NoCredential(q, i) ==
    IF Ext(i).mode = "cookie" THEN Ext(i).cookie_name \notin DOMAIN q.cookies
    ELSE "Authorization" \notin DOMAIN q.headers
\* the request carries this token as scope i's cookie, or as "bearer <token>"
Presents(q, i, token) ==
    IF Ext(i).mode = "cookie"
    THEN Ext(i).cookie_name \in DOMAIN q.cookies /\ q.cookies[Ext(i).cookie_name] = token
    ELSE q.headers = BearerHeader("bearer", " ", token)
\* the token text the request carries for scope i, whatever its form
Carries(q, i, token) ==
    IF Ext(i).mode = "cookie"
    THEN Ext(i).cookie_name \in DOMAIN q.cookies /\ q.cookies[Ext(i).cookie_name] = token
    ELSE "Authorization" \in DOMAIN q.headers
         /\ q.headers["Authorization"].rest.token = token
\* scope i issued this token for a user at most its duration ago
Issued(i, token) ==
    \E a \in AuthIds \cup {None}, t \in 0..now :
        /\ now - t <= Ext(i).duration
        /\ token = dumps(app.secret_key, Ext(i).salt, a, t)

\* C7: the identity resolved for a request or websocket that carries no
\* credential (no cookie of the scope's name in cookie mode, no Authorization
\* header in bearer mode) has auth_id None and is not authenticated.
C7_NoCredentialIsAnonymous ==
    \A r \in Slots, i \in Scopes :
        LET q == req[r]
        IN  (q.stage # "idle" /\ HasMemo(q, i) /\ Unmutated(q, i) /\ NoCredential(q, i))
            => /\ Memo(q, i).auth_id = None
               /\ ~is_authenticated(Memo(q, i))

C7_Witness ==
    \E r \in Slots, i \in Scopes :
        /\ req[r].stage = "open" /\ req[r].kind = "websocket"
        /\ Ext(i).mode = "bearer"
        /\ req[r].cookies # <<>>
        /\ HasMemo(req[r], i) /\ Unmutated(req[r], i) /\ NoCredential(req[r], i)
        /\ Memo(req[r], i).auth_id = None

\* C8: a request or websocket carrying a token the scope issued for auth_id a
\* at most its duration ago (as the scope's cookie, or as "bearer <token>")
\* resolves to an identity with auth_id a that is authenticated.
C8_ValidTokenResolves ==
    \A r \in Slots, i \in Scopes, a \in AuthIds, t \in 0..MaxTime :
        LET q == req[r]
        IN  (/\ q.stage # "idle" /\ HasMemo(q, i) /\ Unmutated(q, i)
             /\ t <= now /\ now - t <= Ext(i).duration
             /\ Presents(q, i, dumps(app.secret_key, Ext(i).salt, a, t)))
            => /\ Memo(q, i).auth_id = a
               /\ is_authenticated(Memo(q, i))

C8_Witness ==
    \E r \in Slots, i \in Scopes :
        /\ req[r].stage = "open" /\ Ext(i).mode = "bearer"
        /\ now = Duration
        /\ Presents(req[r], i, dumps(app.secret_key, Ext(i).salt, "2", 0))
        /\ HasMemo(req[r], i) /\ Unmutated(req[r], i)
        /\ Memo(req[r], i).auth_id = "2"

C10_BearerResponse ==
    \A r \in Slots :
        LET q == req[r]
            bearer == {i \in Scopes : Ext(i).mode = "bearer"}
        IN  (q.stage = "closed" /\ bearer # {})
            => /\ \A i \in bearer : Directives(q, i) = {} /\ HasMemo(q, i)
               /\ (BearerWarning \in q.warnings)
                     <=> (\E i \in bearer : Memo(q, i).action # "PASS")

C10_ReconcileRaisesNothing ==
    \A r \in Slots :
        (AfterRequest(r) \/ AfterWebsocket(r)) => req'[r].exc = req[r].exc

C10_BearerNeverMutates == []C10_BearerResponse /\ [][C10_ReconcileRaisesNothing]_vars

C10_Witness ==
    \E r \in Slots, i \in Scopes :
        /\ req[r].stage = "closed" /\ req[r].kind = "request"
        /\ Ext(i).mode = "bearer"
        /\ req[r].last[i].op = "login"
        /\ Memo(req[r], i).action = "WRITE"
        /\ BearerWarning \in req[r].warnings
        /\ req[r].response = <<>>

\* the client's session of scope i is within the scope's credential duration
Fresh(i) == now - session[i].at <= Ext(i).duration

GuardAccepts(r) ==
    /\ req'[r].exc = "none"
    /\ req'[r].runs = req[r].runs + 1
GuardRejects(r) ==
    /\ req'[r].exc = "Unauthorized"
    /\ req'[r].runs = req[r].runs

\* C5 as stated: after a request that logs in, every following request of the
\* client passes login_required until a request logs out, however much later
\* it is sent; after a logout every following request fails it.
C5_Original ==
    [][\A r \in Slots :
          (LoginRequired(r) /\ find_extension # 0 /\ Unmutated(req[r], find_extension))
          => /\ session[find_extension].state = "in" => GuardAccepts(r)
             /\ session[find_extension].state = "out" => GuardRejects(r)]_vars

\* C5: for a client that stores and resends cookies (cookie mode), after a
\* request that logs in, every following request sent within the credential
\* duration of that login passes login_required until a request logs out; after
\* a request that logs out, every following request fails login_required until
\* the next login.
C5_LoginLogoutSessions ==
    [][\A r \in Slots :
          (LoginRequired(r) /\ find_extension # 0 /\ Unmutated(req[r], find_extension))
          => /\ (session[find_extension].state = "in" /\ Fresh(find_extension))
                    => GuardAccepts(r)
             /\ session[find_extension].state = "out" => GuardRejects(r)]_vars

C5_Witness ==
    \E r \in Slots :
        LET e == find_extension
        IN  /\ req[r].stage = "open" /\ req[r].client
            /\ session[e].state = "in" /\ now = session[e].at + Ext(e).duration
            /\ Unmutated(req[r], e) /\ HasMemo(req[r], e)
            /\ req[r].runs = 1 /\ req[r].exc = "none"
            /\ req[r].returned = HandlerResult

\* C6 as stated: after logins against scope A only, the guard bound to scope B
\* rejects the client and the guard bound to scope A accepts it, however much
\* later the client's request is sent.
C6_Original ==
    [][\A r \in Slots, j \in Scopes :
          (ScopeLoginRequired(r, j) /\ req[r].client /\ Unmutated(req[r], j))
          => /\ session[j].state = "none" => GuardRejects(r)
             /\ session[j].state = "in" => GuardAccepts(r)]_vars

\* C6: two coordinators registered on one app with distinct attribute names,
\* cookie names and salts are isolated: whatever logins the client has made
\* against the other scope, a guard bound to a scope the client never logged in
\* to rejects the client, while the guard bound to a scope it logged in to
\* accepts it within that scope's credential duration.
C6_ScopesIsolated ==
    [][\A r \in Slots, j \in Scopes :
          (ScopeLoginRequired(r, j) /\ req[r].client /\ Unmutated(req[r], j))
          => /\ session[j].state = "none" => GuardRejects(r)
             /\ (session[j].state = "in" /\ Fresh(j)) => GuardAccepts(r)]_vars

C6_Witness ==
    \E r \in Slots, i \in Scopes, j \in Scopes :
        /\ i # j
        /\ Ext(i).attribute_name # Ext(j).attribute_name
        /\ Ext(i).cookie_name # Ext(j).cookie_name
        /\ Ext(i).salt # Ext(j).salt
        /\ session[i].state = "in" /\ session[j].state = "none"
        /\ req[r].stage = "open" /\ req[r].client
        /\ Unmutated(req[r], i) /\ Unmutated(req[r], j)
        /\ HasMemo(req[r], i) /\ is_authenticated(Memo(req[r], i))
        /\ HasMemo(req[r], j) /\ ~is_authenticated(Memo(req[r], j))
        /\ req[r].runs = 1 /\ req[r].exc = "Unauthorized"

(* ------------- requests carrying any Authorization header ------------- *)

\* the app of tests/test_bearer.py: the default scope reads the Authorization header
BearerDeployments == {d \in Deployments : "QUART_AUTH_MODE" \in DOMAIN d.config}

\* the first six characters of an Authorization header, and what separates
\* them from the token text: a space, or nothing
Prefixes == {"bearer", "Bearer", "BEARER", "basic ", "token "}
Leads == {" ", ""}
AuthorizationInputs ==
    {BearerHeader(prefix, lead, token) :
        prefix \in Prefixes, lead \in Leads, token \in TokenInputs}

ArriveAuthorization(r) ==
    /\ req[r].stage = "idle"
    /\ \E kind \in Kinds, headers \in {<<>>} \cup AuthorizationInputs :
          req' = [req EXCEPT ![r] = Open(kind, FALSE, <<>>, headers)]
    /\ UNCHANGED <<app, now, jar, session, codec, test_client>>

InitBearer ==
    /\ app \in {Register(Quart(d.config), d.ctors) : d \in BearerDeployments}
    /\ now = 0
    /\ jar = <<>>
    /\ session = [i \in 1..Len(app.extensions) |-> NoSession]
    /\ req = [r \in Slots |-> IdleRequest]
    /\ codec = NoCodec
    /\ test_client = TestClient(TRUE)

NextBearer ==
    \/ \E r \in Slots : ArriveAuthorization(r)
    \/ \E r \in Slots : CurrentUser(r)
    \/ \E r \in Slots : LoginRequired(r)
    \/ \E r \in Slots : AfterRequest(r)
    \/ \E r \in Slots : AfterWebsocket(r)
    \/ \E r \in Slots : Deliver(r)
    \/ Tick

SpecBearer == InitBearer /\ [][NextBearer]_vars

\* C11: in bearer mode an Authorization header that does not start,
\* case-insensitively, with "bearer" followed by whitespace resolves to the
\* anonymous identity; only when it does is the remainder decoded as a token.
C11_BearerScheme ==
    \A r \in Slots, i \in Scopes :
        LET q == req[r]
            raw == q.headers["Authorization"]
        IN  (/\ q.stage # "idle" /\ Ext(i).mode = "bearer"
             /\ HasMemo(q, i) /\ Unmutated(q, i)
             /\ "Authorization" \in DOMAIN q.headers)
            => IF Lower(raw.prefix) = "bearer" /\ raw.rest.lead = " "
               THEN Memo(q, i).auth_id = Decoded(i, raw.rest.token).value
               ELSE Memo(q, i).auth_id = None /\ q.decodes = 0

\* C12: in cookie mode a request whose pending action is Pass gets no response
\* mutation; a freshly resolved identity always has action Pass, so a request
\* that only reads the identity, with or without a valid inbound cookie, emits
\* neither a set-cookie nor a cookie-clearing directive.
C12_PassLeavesResponse ==
    \A r \in Slots, i \in Scopes :
        LET q == req[r]
        IN  /\ (q.stage # "idle" /\ HasMemo(q, i) /\ Unmutated(q, i))
                  => Memo(q, i).action = "PASS"
            /\ (q.stage = "closed" /\ Ext(i).mode = "cookie" /\ Memo(q, i).action = "PASS")
                  => Directives(q, i) = {}
            /\ (q.stage = "closed" /\ Ext(i).mode = "cookie" /\ Unmutated(q, i))
                  => Directives(q, i) = {}

C12_Witness ==
    \E r \in Slots, i \in Scopes :
        /\ req[r].stage = "closed" /\ req[r].kind = "request"
        /\ Ext(i).mode = "cookie" /\ Unmutated(req[r], i)
        /\ Presents(req[r], i, dumps(app.secret_key, Ext(i).salt, "1", now))
        /\ req[r].ops > 0
        /\ Memo(req[r], i) = AuthUser("1", "PASS")
        /\ Directives(req[r], i) = {}

\* C13: renew() sets the pending action of the memoized identity to
\* WritePermanent and leaves its auth_id unchanged; for a client logged in with
\* a session cookie, a request that calls renew is answered with a cookie whose
\* max-age is the configured duration, for the same auth_id.
C13_RenewedCookie ==
    \A r \in Slots :
        LET q == req[r]
            e == find_extension
        IN  (/\ q.stage = "closed" /\ q.kind = "request" /\ q.client
             /\ q.last[e] = [NoMutation EXCEPT !.renewed = TRUE]
             /\ session[e].state = "in" /\ Fresh(e))
            => /\ Directives(q, e) # {}
               /\ \A k \in Directives(q, e) :
                    /\ q.response[k].op = "set"
                    /\ q.response[k].max_age = <<Ext(e).duration>>
                    /\ Decoded(e, q.response[k].token) = [exc |-> "none", value |-> ClientUser]

C13_RenewKeepsAuthId ==
    \A r \in Slots :
        (RenewLogin(r) /\ find_extension # 0)
        => LET e == find_extension
               before == load_user(Ext(e), req[r]).user
           IN  /\ HasMemo(req'[r], e)
               /\ Memo(req'[r], e) = [before EXCEPT !.action = "WRITE_PERMANENT"]

C13_Renew == []C13_RenewedCookie /\ [][C13_RenewKeepsAuthId]_vars

C13_Witness ==
    \E r \in Slots :
        LET q == req[r]
            e == find_extension
        IN  /\ q.stage = "closed" /\ q.kind = "request" /\ q.client
            /\ q.last[e] = [NoMutation EXCEPT !.renewed = TRUE]
            /\ session[e].state = "in" /\ now > session[e].at
            /\ Ext(e).cookie_name \in DOMAIN jar
            /\ jar[Ext(e).cookie_name].expires = <<>>
            /\ \E k \in Directives(q, e) :
                  /\ q.response[k].max_age = <<Duration>>
                  /\ q.response[k].token = dumps(AppSecret, Ext(e).salt, ClientUser, now)

(* ------------- code that runs outside a request or websocket ---------- *)

\* the contexts code can run in: a request, a websocket, or the app context
\* alone (a background task, a CLI command, app.app_context())
Contexts == Kinds \cup {"app"}

\* a request or websocket without credentials begins, or an app context is pushed
Enter(r) ==
    /\ req[r].stage = "idle"
    /\ \E kind \in Contexts :
          req' = [req EXCEPT ![r] = Open(kind, FALSE, <<>>, <<>>)]
    /\ UNCHANGED <<app, now, jar, session, codec, test_client>>

\* the app context is popped: nothing is reconciled
Exit(r) ==
    /\ req[r].stage = "open"
    /\ req[r].kind = "app"
    /\ req' = [req EXCEPT ![r] = IdleRequest]
    /\ UNCHANGED <<app, now, jar, session, codec, test_client>>

NextOutside ==
    \/ \E r \in Slots : Enter(r)
    \/ \E r \in Slots : Handle(r)
    \/ \E r \in Slots : Exit(r)
    \/ Tick

SpecOutside == Init /\ [][NextOutside]_vars

\* the call made in this step failed with a context error and changed no identity
ContextError(r) ==
    /\ req'[r].exc = "RuntimeError"
    /\ req'[r].ctx = req[r].ctx

\* C14: login(), logout() and renew() each fail with a context error when
\* invoked outside an active request or websocket, and leave no identity mutated.
C14_OutsideContext ==
    [][\A r \in Slots :
          (req[r].kind = "app" /\ find_extension # 0)
          => /\ \A a \in AuthIds, remember \in BOOLEAN :
                   LoginUser(r, a, remember) => ContextError(r)
             /\ LogoutUser(r) => ContextError(r)
             /\ RenewLogin(r) => ContextError(r)]_vars

\* C15: within one request or websocket and one scope the credential is decoded
\* at most once: every read of the identity returns the memoized identity
\* without decoding, and after login() or logout() every read returns the
\* identity that call installed.
C15_Memoized ==
    \A r \in Slots, i \in Scopes :
        LET q == req[r]
        IN  q.stage # "idle"
            => /\ q.decodes <= 1
               /\ HasMemo(q, i) => load_user(Ext(i), q) = [q |-> q, user |-> Memo(q, i)]
               /\ q.last[i].op # "none"
                    => /\ HasMemo(q, i)
                       /\ Memo(q, i).auth_id = q.last[i].auth_id

\* two reads of a decoded credential in one request
C15_Witness ==
    \E r \in Slots, i \in Scopes :
        /\ req[r].stage = "closed" /\ req[r].ops = 2
        /\ Unmutated(req[r], i)
        /\ Presents(req[r], i, dumps(app.secret_key, Ext(i).salt, "2", now))
        /\ Memo(req[r], i).auth_id = "2"
        /\ req[r].decodes = 1

(* --------------------- requests handled concurrently ------------------ *)

\* the requests in flight at once, each handled by its own task
Tasks == {1, 2}

\* mutant of Context: one context for the whole process
Context_shared(t) == 1

\* request_ctx / websocket_ctx of a task: the context of the request it handles
Context(t) == t

\* a request or websocket without a credential is accepted
Accept(r) ==
    /\ req[r].stage = "idle"
    /\ \E kind \in Kinds :
          req' = [req EXCEPT ![r] = Open(kind, FALSE, <<>>, <<>>)]
    /\ UNCHANGED <<app, now, jar, session, codec, test_client>>

\* one step of the task handling a request
Step(r) ==
    \/ Accept(r)
    \/ CurrentUser(r)
    \/ \E a \in AuthIds, remember \in BOOLEAN : LoginUser(r, a, remember)
    \/ LogoutUser(r)
    \/ RenewLogin(r)
    \/ AfterRequest(r)
    \/ AfterWebsocket(r)
    \/ Deliver(r)

InitConcurrent ==
    /\ app \in {Register(Quart(d.config), d.ctors) : d \in CookieDeployments}
    /\ now = 0
    /\ jar = <<>>
    /\ session = [i \in 1..Len(app.extensions) |-> NoSession]
    /\ req = [t \in Tasks |-> IdleRequest]
    /\ codec = NoCodec
    /\ test_client = TestClient(TRUE)

\* the tasks' steps interleave in any order
NextConcurrent == \E t \in Tasks : Step(Context(t))

SpecConcurrent == InitConcurrent /\ [][NextConcurrent]_vars

\* what a request reconciles is what its own handler did last
OwnIdentity(q, e) ==
    /\ (HasMemo(q, e) /\ q.last[e].op # "none") => Memo(q, e).auth_id = q.last[e].auth_id
    /\ (HasMemo(q, e) /\ q.last[e] = NoMutation) => Memo(q, e) = AuthUser(None, "PASS")
    /\ (q.stage = "closed" /\ q.kind = "request")
          => \A k \in Directives(q, e) :
                /\ q.response[k].op = "set" <=> Memo(q, e).action \in {"WRITE", "WRITE_PERMANENT"}
                /\ q.response[k].op = "set" => q.response[k].token.payload = Memo(q, e).auth_id

\* a step of one task leaves the request of every other task as it is
C16_OthersUntouched ==
    \A t \in Tasks, o \in Tasks :
        (t # o /\ Step(Context(t))) => req'[o] = req[o]

\* C16: under any interleaving of concurrently handled requests each request
\* has its own identity: login, logout or renew in one request never changes the
\* auth_id or the pending action another in-flight request reads or reconciles.
C16_Independent ==
    /\ [](\A t \in Tasks : OwnIdentity(req[t], find_extension))
    /\ [][C16_OthersUntouched]_vars

C16_Witness ==
    /\ req[1].stage = "closed" /\ req[2].stage = "open"
    /\ req[1].kind = "request" /\ req[2].kind = "request"
    /\ req[1].last[find_extension].op = "login"
    /\ req[1].last[find_extension].auth_id = "1"
    /\ req[2].last[find_extension].op = "logout"
    /\ Memo(req[2], find_extension) = AuthUser(None, "DELETE")
    /\ \E k \in Directives(req[1], find_extension) :
          req[1].response[k].token.payload = "1"

(* --------------------------- the basic-auth guard --------------------- *)

\* passwords and usernames a client sends or an app configures; one password
\* has a character outside ASCII (written here by its code point)
Usernames == {"test", "other"}
Passwords == {"test", "wrong", "t-U+00E9-st"}
NonAscii == {"t-U+00E9-st"}

\* secrets.compare_digest on two str: both must be ASCII, else TypeError
compare_digest(a, b) ==
    IF a \in NonAscii \/ b \in NonAscii
    THEN [raised |-> "TypeError", value |-> FALSE]
    ELSE [raised |-> "none", value |-> a = b]

\* the apps: tests/test_basic_auth.py (username and password "test"), one
\* whose password is not ASCII, and one with no basic credentials configured
BasicConfigs ==
    {NoArgs}
    \cup {[QUART_AUTH_BASIC_USERNAME |-> "test", QUART_AUTH_BASIC_PASSWORD |-> p] :
             p \in {"test", "t-U+00E9-st"}}

\* request.authorization / websocket.authorization: the parsed Authorization
\* header, or nothing when the header is absent or cannot be parsed
authorization(q) ==
    IF "Authorization" \in DOMAIN q.headers /\ q.headers["Authorization"].parsed
    THEN <<q.headers["Authorization"]>>
    ELSE <<>>

\* the exception's WWW-Authenticate challenge
www_authenticate(exc) == IF exc = "UnauthorizedBasicAuth" THEN <<"basic">> ELSE <<>>

\* the wrapper of basic_auth_required() around a handler, with the default keys
basic_auth_required(q) ==
    IF ~(has_request_context(q) \/ has_websocket_context(q))
    THEN [q EXCEPT !.exc = "RuntimeError"]
    ELSE LET auth == authorization(q)
             username_key == "QUART_AUTH_BASIC_USERNAME"
             password_key == "QUART_AUTH_BASIC_PASSWORD"
         IN  IF auth = <<>> THEN [q EXCEPT !.exc = "UnauthorizedBasicAuth"]
             ELSE IF auth[1].type # "basic" THEN [q EXCEPT !.exc = "UnauthorizedBasicAuth"]
             ELSE IF username_key \notin DOMAIN app.config THEN [q EXCEPT !.exc = "KeyError"]
             ELSE IF auth[1].username # app.config[username_key]
             THEN [q EXCEPT !.exc = "UnauthorizedBasicAuth"]
             ELSE IF password_key \notin DOMAIN app.config THEN [q EXCEPT !.exc = "KeyError"]
             ELSE LET c == compare_digest(auth[1].password, app.config[password_key])
                  IN  IF c.raised # "none" THEN [q EXCEPT !.exc = c.raised]
                      ELSE IF c.value
                      THEN [q EXCEPT !.runs = @ + 1, !.returned = HandlerResult]
                      ELSE [q EXCEPT !.exc = "UnauthorizedBasicAuth"]

\* the Authorization headers a client sends: none, one that cannot be parsed,
\* or a scheme with a username and a password
BasicInputs ==
    {<<>>}
    \cup {("Authorization" :> [parsed |-> FALSE, type |-> "basic",
                               username |-> "test", password |-> "test"])}
    \cup {("Authorization" :> [parsed |-> TRUE, type |-> type,
                               username |-> u, password |-> p]) :
             type \in {"basic", "digest"}, u \in Usernames, p \in Passwords}

ArriveBasic(r) ==
    /\ req[r].stage = "idle"
    /\ \E kind \in Kinds, headers \in BasicInputs :
          req' = [req EXCEPT ![r] = Open(kind, FALSE, <<>>, headers)]
    /\ UNCHANGED <<app, now, jar, session, codec, test_client>>

\* the request is routed to a handler wrapped by basic_auth_required()
BasicAuthRequired(r) ==
    /\ Handling(r)
    /\ Put(r, basic_auth_required(req[r]))

InitBasic ==
    /\ app \in {Register(Quart(config), <<NoArgs>>) : config \in BasicConfigs}
    /\ now = 0
    /\ jar = <<>>
    /\ session = [i \in 1..Len(app.extensions) |-> NoSession]
    /\ req = [r \in Slots |-> IdleRequest]
    /\ codec = NoCodec
    /\ test_client = TestClient(TRUE)

NextBasic ==
    \/ \E r \in Slots : ArriveBasic(r)
    \/ \E r \in Slots : BasicAuthRequired(r)
    \/ \E r \in Slots : LoginRequired(r)
    \/ \E r \in Slots : AfterRequest(r)
    \/ \E r \in Slots : AfterWebsocket(r)
    \/ \E r \in Slots : Deliver(r)

SpecBasic == InitBasic /\ [][NextBasic]_vars

\* the request carries a basic credential pair equal to the configured one
BasicMatch(q) ==
    /\ authorization(q) # <<>>
    /\ authorization(q)[1].type = "basic"
    /\ "QUART_AUTH_BASIC_USERNAME" \in DOMAIN app.config
    /\ "QUART_AUTH_BASIC_PASSWORD" \in DOMAIN app.config
    /\ authorization(q)[1].username = app.config["QUART_AUTH_BASIC_USERNAME"]
    /\ authorization(q)[1].password = app.config["QUART_AUTH_BASIC_PASSWORD"]

\* C17: the basic-auth guard invokes the wrapped handler if and only if a
\* credential pair is present, its scheme is basic, its username equals the
\* configured username and its password equals the configured password; a
\* matching username with a wrong password is rejected.
C17_BasicGuard ==
    [][\A r \in Slots :
          BasicAuthRequired(r)
          => (req'[r].runs = req[r].runs + 1 <=> BasicMatch(req[r]))]_vars

\* C18: every request or websocket for which the basic-auth guard does not
\* invoke the handler fails with UnauthorizedBasicAuth carrying a
\* WWW-Authenticate: Basic challenge and with no other error, also when no
\* credentials are configured; the token guard's Unauthorized carries none.
C18_BasicChallenge ==
    [][\A r \in Slots :
          /\ (BasicAuthRequired(r) /\ req'[r].runs = req[r].runs)
                => /\ req'[r].exc = "UnauthorizedBasicAuth"
                   /\ www_authenticate(req'[r].exc) = <<"basic">>
          /\ (LoginRequired(r) /\ req'[r].runs = req[r].runs)
                => /\ req'[r].exc = "Unauthorized"
                   /\ www_authenticate(req'[r].exc) = <<>>]_vars

(* ------------------------- the token codec alone ---------------------- *)

\* auth.dump_token(a) on scope i
DumpToken(i, a) ==
    /\ codec' = [dumped |-> <<[scope |-> i, auth_id |-> a,
                               token |-> dump_token(Ext(i), a)]>>,
                 loaded |-> <<>>]
    /\ UNCHANGED <<app, now, jar, session, req, test_client>>

\* auth.load_token(token) on scope j, for the token last dumped
LoadToken(j) ==
    /\ codec.dumped # <<>>
    /\ codec' = [codec EXCEPT !.loaded =
                    <<[scope |-> j, at |-> now,
                       value |-> load_token(Ext(j), codec.dumped[1].token).value]>>]
    /\ UNCHANGED <<app, now, jar, session, req, test_client>>

NextCodec ==
    \/ \E i \in Scopes, a \in AuthIds : DumpToken(i, a)
    \/ \E j \in Scopes : LoadToken(j)
    \/ Tick

SpecCodec == Init /\ [][NextCodec]_vars

\* C19: token round trip: for every identity string a, load_token of
\* dump_token(a) under the same secret and salt and within the validity window
\* returns exactly a; a token never decodes to a different identity.
C19_RoundTrip ==
    (codec.dumped # <<>> /\ codec.loaded # <<>>)
    => LET d == codec.dumped[1]
           l == codec.loaded[1]
       IN  /\ l.value \in {d.auth_id, None}
           /\ (/\ Ext(l.scope).salt = Ext(d.scope).salt
               /\ l.at - d.token.ts <= Ext(l.scope).duration)
                 => l.value = d.auth_id

\* a token loaded at the end of its validity window
C19_Witness ==
    /\ codec.dumped # <<>> /\ codec.loaded # <<>>
    /\ codec.loaded[1].scope = codec.dumped[1].scope
    /\ codec.dumped[1].scope = 2
    /\ codec.loaded[1].at = codec.dumped[1].token.ts + Duration
    /\ codec.loaded[1].value = "2"

\* C20: cross-salt isolation: a token dumped under salt S1 is rejected
\* (decodes to no identity) by load_token under any salt S2 # S1, with the
\* same secret.
C20_CrossSalt ==
    (codec.dumped # <<>> /\ codec.loaded # <<>>)
    => LET d == codec.dumped[1]
           l == codec.loaded[1]
       IN  Ext(l.scope).salt # Ext(d.scope).salt => l.value = None

C20_Witness ==
    /\ codec.dumped # <<>> /\ codec.loaded # <<>>
    /\ Ext(codec.loaded[1].scope).salt # Ext(codec.dumped[1].scope).salt
    /\ codec.loaded[1].at = codec.dumped[1].token.ts
    /\ codec.loaded[1].value = None

(* ------------------------------ token expiry -------------------------- *)

\* C21: with credential duration D, a token issued at time t is rejected when
\* decoded at t + D + 1 and still accepted at t + D - 1; login writes the same
\* token, stamped with the time of the response, whether remember is False
\* (Write) or True (WritePermanent).
C21_TokenExpiry ==
    \A r \in Slots, i \in Scopes :
        LET q == req[r]
            D == Ext(i).duration
        IN  /\ \A a \in AuthIds, t \in 0..MaxTime :
                  (/\ q.stage # "idle" /\ HasMemo(q, i) /\ Unmutated(q, i)
                   /\ Presents(q, i, dumps(app.secret_key, Ext(i).salt, a, t)))
                  => /\ now = t + D + 1 => Memo(q, i).auth_id = None
                     /\ now = t + D - 1 => Memo(q, i).auth_id = a
            /\ (q.stage = "closed" /\ q.last[i].op = "login")
                  => \A k \in Directives(q, i) :
                        q.response[k].token =
                            dumps(app.secret_key, Ext(i).salt, q.last[i].auth_id, now)

\* a token of the first tick presented one tick after its duration has passed
C21_Witness ==
    \E r \in Slots, i \in Scopes :
        /\ req[r].stage = "open" /\ Ext(i).mode = "cookie"
        /\ now = Ext(i).duration + 1
        /\ Presents(req[r], i, dumps(app.secret_key, Ext(i).salt, "2", 0))
        /\ HasMemo(req[r], i) /\ Unmutated(req[r], i)
        /\ Memo(req[r], i) = AuthUser(None, "PASS")

(* ----------------------- requests carrying altered tokens ------------- *)

\* the characters of a token text, by what they encode: the payload, the
\* timestamp, a separator, the signature's bits, or (the last character) two
\* bits of the signature beside four spare bits
Segments == {"payload", "timestamp", "separator", "signature", "spare"}

\* the token texts that differ from a token in one character of a segment
Tamper(token, segment) ==
    CASE segment = "payload" ->
            {[token EXCEPT !.payload = a] : a \in (AuthIds \cup {None}) \ {token.payload}}
      [] segment = "timestamp" ->
            {[token EXCEPT !.ts = t] : t \in (0..MaxTime) \ {token.ts}}
      [] segment = "separator" -> {GarbageToken}
      [] segment = "signature" ->
            {[token EXCEPT !.sig = base64_encode(Sign(OtherSecret, salt, token.payload, token.ts))] :
                salt \in Salts}
      [] segment = "spare" -> {[token EXCEPT !.sig.spare = 1]}

\* the tokens the app has issued
IssuedTokens == {dumps(AppSecret, salt, a, t) : salt \in Salts, a \in AuthIds, t \in 0..now}

TamperedInputs == UNION {Tamper(token, segment) : token \in IssuedTokens, segment \in Segments}

\* a request or websocket arrives with an issued token altered in one character
ArriveTampered(r) ==
    /\ req[r].stage = "idle"
    /\ \E kind \in Kinds, i \in Scopes, token \in TamperedInputs :
          req' = [req EXCEPT ![r] =
                    IF Ext(i).mode = "cookie"
                    THEN Open(kind, FALSE, (Ext(i).cookie_name :> token), <<>>)
                    ELSE Open(kind, FALSE, <<>>, BearerHeader("bearer", " ", token))]
    /\ UNCHANGED <<app, now, jar, session, codec, test_client>>

NextTamper ==
    \/ \E r \in Slots : ArriveTampered(r)
    \/ \E r \in Slots, i \in Scopes : LoadUser(r, i)
    \/ \E r \in Slots, i \in Scopes : ScopeLoginRequired(r, i)
    \/ \E r \in Slots : AfterRequest(r)
    \/ \E r \in Slots : AfterWebsocket(r)
    \/ \E r \in Slots : Deliver(r)
    \/ Tick

SpecTamper == Init /\ [][NextTamper]_vars

\* C22: changing any single character of a valid token makes decoding fail: the
\* altered token resolves to the anonymous identity, never to an auth_id.
C22_TamperDetected ==
    \A r \in Slots, i \in Scopes :
        \A a \in AuthIds, t \in 0..MaxTime, segment \in Segments :
            LET q == req[r]
                valid == dumps(app.secret_key, Ext(i).salt, a, t)
            IN  (/\ q.stage # "idle" /\ HasMemo(q, i) /\ Unmutated(q, i)
                 /\ t <= now /\ now - t <= Ext(i).duration
                 /\ \E token \in Tamper(valid, segment) : Carries(q, i, token))
                => Memo(q, i).auth_id = None

(* ------------------------ reconcile on a websocket -------------------- *)

\* C23: for a websocket in cookie mode whose pending action is not Pass, the
\* reconcile step still attempts the cookie directive on the handshake response
\* when there is one (set for Write and WritePermanent, clear for Delete) and
\* warns that the client may ignore it.
C23_WebsocketDirective ==
    \A r \in Slots, i \in Scopes :
        LET q == req[r]
        IN  (/\ q.stage = "closed" /\ q.kind = "websocket"
             /\ Ext(i).mode = "cookie"
             /\ Memo(q, i).action # "PASS")
            => /\ q.warnings \cap {WebsocketMayWarning, WebsocketCannotWarning} # {}
               /\ WebsocketMayWarning \in q.warnings
                    => /\ Directives(q, i) # {}
                       /\ \A k \in Directives(q, i) :
                            q.response[k].op =
                                IF Memo(q, i).action = "DELETE" THEN "delete" ELSE "set"

(* ----------------------- registration, step by step ------------------- *)

\* the coordinators an app constructs: the default scope, the admin scope of
\* tests/test_multiple.py, a second coordinator left at the defaults but not
\* singleton, and a singleton that shares only its cookie name with the admin scope
PlainArgs == [singleton |-> FALSE]
StaffArgs ==
    [attribute_name |-> "staff", cookie_name |-> "ADMIN", salt |-> "staff salt",
     singleton |-> TRUE]
CtorArgs == {NoArgs, AdminArgs, PlainArgs, StaffArgs}

\* QuartAuth(app, **args), or auth.init_app(app), while the app is set up
InitApp(args) ==
    /\ Quiet
    /\ Len(app.extensions) < MaxScopes
    /\ app' = init_app(QuartAuth(args), app)
    /\ session' = Append(session, NoSession)
    /\ UNCHANGED <<now, jar, req, codec, test_client>>

InitRegister ==
    /\ app \in {Quart(d.config) : d \in Deployments}
    /\ now = 0
    /\ jar = <<>>
    /\ session = <<>>
    /\ req = [r \in Slots |-> IdleRequest]
    /\ codec = NoCodec
    /\ test_client = TestClient(TRUE)

NextRegister == \E args \in CtorArgs : InitApp(args)

SpecRegister == InitRegister /\ [][NextRegister]_vars

\* scopes i and j share an attribute name, a cookie name or a salt
Collide(i, j) ==
    \/ Ext(i).attribute_name = Ext(j).attribute_name
    \/ Ext(i).cookie_name = Ext(j).cookie_name
    \/ Ext(i).salt = Ext(j).salt

\* registered scopes with singleton = True, among the first n
Singletons(n) == {i \in 1..n : Ext(i).singleton}

authenticated_client(self, cookie_jar, j, auth_id) ==
    IF ~cookie_jar \/ self.mode # "cookie"
    THEN [jar |-> j, raised |-> "RuntimeError"]
    ELSE [jar |-> (self.cookie_name :> [token |-> dump_token(self, auth_id),
                                        expires |-> <<>>]) @@ j,
          raised |-> "none"]

\* QuartAuth.authenticated_client after its yield: client.delete_cookie. When
\* the body of the `async with` raises, the exception is thrown in at the
\* yield and the lines after it do not run.
authenticated_client_exit(self, j, body_raised) ==
    IF body_raised THEN j
    ELSE [n \in DOMAIN j \ {self.cookie_name} |-> j[n]]

\* the test enters `async with auth.authenticated_client(test_client, a)`
EnterAuthenticated(i, a) ==
    /\ Quiet
    /\ test_client.exc = "none"
    /\ test_client.authenticated = <<>>
    /\ LET r == authenticated_client(Ext(i), test_client.cookie_jar, jar, a)
       IN  /\ jar' = r.jar
           /\ test_client' =
                 IF r.raised # "none"
                 THEN [test_client EXCEPT !.asked = <<i>>, !.exc = r.raised]
                 ELSE [test_client EXCEPT !.asked = <<i>>, !.left = <<>>,
                          !.authenticated = <<[scope |-> i, auth_id |-> a, at |-> now]>>]
    /\ UNCHANGED <<app, now, session, req, codec>>

\* the body of the `async with` returns, or raises
ExitAuthenticated(body_raised) ==
    /\ Quiet
    /\ test_client.authenticated # <<>>
    /\ LET i == test_client.authenticated[1].scope
       IN  /\ jar' = authenticated_client_exit(Ext(i), jar, body_raised)
           /\ test_client' = [test_client EXCEPT !.authenticated = <<>>,
                                 !.left = <<[scope |-> i, raised |-> body_raised]>>]
    /\ UNCHANGED <<app, now, session, req, codec>>

\* the test client sends a request
ClientRequest(r) ==
    /\ test_client.cookie_jar
    /\ test_client.exc = "none"
    /\ BeginRequest(r)

InitTestClient ==
    /\ app \in {Register(Quart(d.config), d.ctors) : d \in Deployments}
    /\ now = 0
    /\ jar = <<>>
    /\ session = [i \in 1..Len(app.extensions) |-> NoSession]
    /\ req = [r \in Slots |-> IdleRequest]
    /\ codec = NoCodec
    /\ test_client \in {TestClient(use_cookies) : use_cookies \in BOOLEAN}

\* the routes of tests/test_basic.py
NextTestClient ==
    \/ \E i \in Scopes, a \in AuthIds : EnterAuthenticated(i, a)
    \/ \E body_raised \in BOOLEAN : ExitAuthenticated(body_raised)
    \/ \E r \in Slots : ClientRequest(r)
    \/ \E r \in Slots : CurrentUser(r)
    \/ \E r \in Slots, i \in Scopes : LoadUser(r, i)
    \/ \E r \in Slots : LoginRequired(r)
    \/ \E r \in Slots : LoginUser(r, ClientUser, FALSE)
    \/ \E r \in Slots : LogoutUser(r)
    \/ \E r \in Slots : RenewLogin(r)
    \/ \E r \in Slots : AfterRequest(r)
    \/ \E r \in Slots : AfterWebsocket(r)
    \/ \E r \in Slots : Deliver(r)
    \/ Tick

SpecTestClient == InitTestClient /\ [][NextTestClient]_vars

\* C25: every request made inside authenticated_client(client, a) resolves to
\* auth_id a, and every request made after the context exits is unauthenticated
\* again (the cookie is removed); entering raises an error when the scope is not
\* in cookie mode or the client has no cookie jar.
C25_AuthenticatedClient ==
    /\ \A r \in Slots, i \in Scopes :
          LET q == req[r]
          IN  (q.stage # "idle" /\ HasMemo(q, i) /\ Unmutated(q, i))
              => /\ (/\ test_client.authenticated # <<>>
                     /\ test_client.authenticated[1].scope = i)
                       => Memo(q, i).auth_id = test_client.authenticated[1].auth_id
                 /\ (/\ test_client.authenticated = <<>>
                     /\ test_client.left # <<>>
                     /\ test_client.left[1].scope = i
                     /\ session[i].state # "in")
                       => /\ Memo(q, i).auth_id = None
                          /\ Ext(i).cookie_name \notin DOMAIN jar
    /\ \A i \in Scopes :
          (test_client.asked = <<i>> /\ (Ext(i).mode # "cookie" \/ ~test_client.cookie_jar))
          => test_client.exc = "RuntimeError" /\ test_client.authenticated = <<>>

(* ------------------------ several calls in one request ---------------- *)

\* C26: last write wins: after any sequence of login(user, remember) and
\* logout() calls within one request the identity read is the one the last call
\* installed, and the response is reconciled once, with that call's action only:
\* Delete for logout, Write for remember=False, WritePermanent for remember=True.
C26_LastWriteWins ==
    \A r \in Slots, i \in Scopes :
        LET q == req[r]
            m == q.last[i]
        IN  (/\ q.stage \in {"open", "closed"} /\ q.kind = "request"
             /\ m.op \in {"login", "logout"} /\ ~m.renewed)
            => /\ HasMemo(q, i)
               /\ load_user(Ext(i), q).user = AuthUser(m.auth_id, m.action)
               /\ (q.stage = "closed" /\ Ext(i).mode = "cookie")
                    => /\ Cardinality(Directives(q, i)) = 1
                       /\ \A k \in Directives(q, i) :
                            CASE m.action = "DELETE" -> q.response[k].op = "delete"
                              [] m.action = "WRITE" ->
                                    /\ q.response[k].op = "set"
                                    /\ q.response[k].max_age = NoMaxAge
                                    /\ q.response[k].token.payload = m.auth_id
                              [] m.action = "WRITE_PERMANENT" ->
                                    /\ q.response[k].op = "set"
                                    /\ q.response[k].max_age = <<Ext(i).duration>>
                                    /\ q.response[k].token.payload = m.auth_id

\* two calls that install an identity in one request (its cookie was never
\* decoded), a logout last
C26_Witness ==
    \E r \in Slots, i \in Scopes :
        LET q == req[r]
        IN  /\ q.stage = "closed" /\ q.kind = "request" /\ q.exc = "none"
            /\ Ext(i).mode = "cookie"
            /\ Presents(q, i, dumps(app.secret_key, Ext(i).salt, "1", now))
            /\ q.ops = 2 /\ q.decodes = 0
            /\ \A j \in Scopes \ {i} : q.last[j] = NoMutation
            /\ q.last[i].op = "logout"
            /\ \E k \in Directives(q, i) : q.response[k].op = "delete"

(* --------------------- login and logout in a websocket ---------------- *)

\* C27: login() and logout() called inside a websocket, with no request
\* context active, do not fail: they replace the connection's memoized identity
\* exactly as they do for a request.
C27_WebsocketLogin ==
    [][\A r \in Slots :
          (req[r].kind = "websocket" /\ find_extension # 0)
          => LET e == find_extension
             IN  /\ \A a \in AuthIds, remember \in BOOLEAN :
                       LoginUser(r, a, remember)
                       => /\ req'[r].exc = "none"
                          /\ HasMemo(req'[r], e)
                          /\ Memo(req'[r], e) =
                                AuthUser(a, IF remember THEN "WRITE_PERMANENT" ELSE "WRITE")
                 /\ LogoutUser(r)
                       => /\ req'[r].exc = "none"
                          /\ HasMemo(req'[r], e)
                          /\ Memo(req'[r], e) = AuthUser(None, "DELETE")]_vars

\* C28: at most one singleton scope is registered on an app, in every reachable
\* state, because init_app of a second singleton coordinator raises RuntimeError.
C28_OneSingleton ==
    /\ Cardinality(Singletons(Len(app.extensions))) <= 1
    /\ \A j \in Scopes :
          (Ext(j).singleton /\ Singletons(j - 1) # {}) => j \in app.raised

(* ------------------- the ambient entry points and the scopes ---------- *)

\* the apps: tests/test_basic.py (a singleton and a named scope beside it),
\* tests/test_multiple.py (two named scopes, no singleton), and an app on which
\* no coordinator was registered
MultipleCtors ==
    <<[attribute_name |-> "staff", cookie_name |-> "STAFF", salt |-> "staff salt",
       singleton |-> FALSE],
      AdminArgs>>
AmbientDeployments ==
    CookieDeployments
    \cup {[config |-> NoArgs, ctors |-> MultipleCtors], [config |-> NoArgs, ctors |-> <<>>]}

InitAmbient ==
    /\ app \in {Register(Quart(d.config), d.ctors) : d \in AmbientDeployments}
    /\ now = 0
    /\ jar = <<>>
    /\ session = [i \in 1..Len(app.extensions) |-> NoSession]
    /\ req = [r \in Slots |-> IdleRequest]
    /\ codec = NoCodec
    /\ test_client = TestClient(TRUE)

\* handlers that use the entry points of globals.py only
NextAmbient ==
    \/ \E r \in Slots : Arrive(r)
    \/ \E r \in Slots : CurrentUser(r)
    \/ \E r \in Slots : LoginRequired(r)
    \/ \E r \in Slots, a \in AuthIds, remember \in BOOLEAN : LoginUser(r, a, remember)
    \/ \E r \in Slots : LogoutUser(r)
    \/ \E r \in Slots : RenewLogin(r)
    \/ \E r \in Slots : AfterRequest(r)
    \/ \E r \in Slots : AfterWebsocket(r)
    \/ \E r \in Slots : Deliver(r)

SpecAmbient == InitAmbient /\ [][NextAmbient]_vars

\* C29: current_user, login_required, login_user, logout_user and renew_login
\* act on exactly the singleton scope: they raise RuntimeError when no singleton
\* scope is registered, and after any sequence of calls to them the memoized
\* identity and the cookie of every scope that is not singleton are unchanged.
C29_AmbientSingleton ==
    \A r \in Slots :
        LET q == req[r]
        IN  /\ (q.stage = "open" /\ q.ops > 0 /\ find_extension = 0)
                  => q.exc = "RuntimeError" /\ q.ctx = <<>>
            /\ \A j \in Scopes :
                  (q.stage # "idle" /\ ~Ext(j).singleton)
                  => /\ HasMemo(q, j) => Memo(q, j) = resolve_user(Ext(j), q).user
                     /\ Directives(q, j) = {}

(* ------------------------- renewing an anonymous identity ------------- *)

\* C30: the reconcile step never issues a credential for an anonymous
\* identity: after any sequence of login, logout and renew in a cookie-mode
\* request a set-cookie token directive is emitted only if the memoized
\* identity's auth_id is not None.
C30_NoAnonymousToken ==
    \A r \in Slots, i \in Scopes :
        LET q == req[r]
        IN  (q.stage = "closed" /\ q.kind = "request" /\ Ext(i).mode = "cookie")
            => \A k \in Directives(q, i) :
                  q.response[k].op = "set"
                  => /\ Memo(q, i).auth_id # None
                     /\ q.response[k].token.payload # None

(* ------------------- the identity class of a scope -------------------- *)

\* QuartAuth.__init__, the class attributes and lines 109-112, on the keyword
\* arguments serializer_class and user_class (None when not passed): both
\* assignments are made under the test of serializer_class
QuartAuth_classes(args) ==
    [serializer_class |-> IF args.serializer_class # None THEN args.serializer_class
                          ELSE "_AuthSerializer",
     user_class |-> IF args.serializer_class # None THEN args.user_class ELSE "AuthUser"]

\* self.user_class(auth_id): an identity of the scope's class; calling None is
\* a TypeError
user_class(self, auth_id) ==
    IF self.user_class = None
    THEN [raised |-> "TypeError", user |-> None]
    ELSE [raised |-> "none", user |-> ("class" :> self.user_class) @@ AuthUser(auth_id, "PASS")]

\* resolve_user, the class of the identity included
resolve_user_class(self, q) ==
    LET r == IF self.mode = "cookie" THEN load_cookie(self, q) ELSE load_bearer(self, q)
        u == user_class(self, r.value)
    IN  IF r.raised # "none"
        THEN [user |-> None, raised |-> r.raised, decoded |-> r.decoded]
        ELSE [user |-> u.user, raised |-> u.raised, decoded |-> r.decoded]

\* load_user, the class of the identity included: the default handed to getattr,
\* self.user_class(None), is constructed on every call
load_user_class(self, q) ==
    IF has_request_context(q) \/ has_websocket_context(q)
    THEN LET r == IF self.attribute_name \notin DOMAIN q.ctx
                  THEN resolve_user_class(self, q)
                  ELSE [user |-> q.ctx[self.attribute_name], raised |-> "none",
                        decoded |-> FALSE]
             default == user_class(self, None)
         IN  IF r.raised # "none"
             THEN [q |-> [q EXCEPT !.exc = r.raised], user |-> None]
             ELSE LET memo == [q EXCEPT !.ctx = (self.attribute_name :> r.user) @@ @,
                                        !.decodes = @ + (IF r.decoded THEN 1 ELSE 0)]
                  IN  IF default.raised # "none"
                      THEN [q |-> [memo EXCEPT !.exc = default.raised], user |-> None]
                      ELSE [q |-> memo, user |-> r.user]
    ELSE LET u == user_class(self, None)
         IN  [q |-> [q EXCEPT !.exc = u.raised], user |-> u.user]

\* QuartAuth.logout_user, the class of the identity included
logout_user_class(self, q) ==
    LET u == user_class(self, None)
    IN  IF u.raised # "none" THEN [q EXCEPT !.exc = u.raised]
        ELSE IF has_request_context(q)
        THEN [q EXCEPT !.ctx = (self.attribute_name :> [u.user EXCEPT !.action = "DELETE"]) @@ @]
        ELSE [q EXCEPT !.exc = "RuntimeError"]

\* the handler reads a scope's identity: auth.load_user()
LoadUserClass(r, i) ==
    /\ Handling(r)
    /\ Put(r, load_user_class(app.extensions[i], req[r]).q)

\* the handler calls auth.logout_user() on a scope
LogoutUserClass(r, i) ==
    /\ Handling(r)
    /\ Put(r, logout_user_class(app.extensions[i], req[r]))

\* the default scope and a named scope, each constructed with a subclass of
\* AuthUser, a subclass of the serializer, both or neither (the subclasses are
\* constructed and decode as their base classes do); app.ctors keeps the class
\* arguments of the constructor calls that were made
InitUserClass ==
    /\ \E ctors \in [{1, 2} -> [user_class : {None, "User"},
                                serializer_class : {None, "Serializer"}]] :
          LET a == Register(Quart(NoArgs), <<NoArgs, AdminArgs>>)
          IN  app = [config |-> a.config, secret_key |-> a.secret_key,
                     extensions |-> [i \in 1..Len(a.extensions) |->
                                        QuartAuth_classes(ctors[i]) @@ a.extensions[i]],
                     warned |-> a.warned, after_request_funcs |-> a.after_request_funcs,
                     raised |-> a.raised, ctors |-> ctors]
    /\ now = 0
    /\ jar = <<>>
    /\ session = [i \in 1..Len(app.extensions) |-> NoSession]
    /\ req = [r \in Slots |-> IdleRequest]
    /\ codec = NoCodec
    /\ test_client = TestClient(TRUE)

\* a request or websocket arrives with a credential, or a context of any kind
\* begins without one; the handler reads or logs out a scope's identity
NextUserClass ==
    \/ \E r \in Slots : Arrive(r)
    \/ \E r \in Slots : Enter(r)
    \/ \E r \in Slots, i \in Scopes : LoadUserClass(r, i)
    \/ \E r \in Slots, i \in Scopes : LogoutUserClass(r, i)
    \/ \E r \in Slots : Exit(r)
    \/ Tick

SpecUserClass == InitUserClass /\ [][NextUserClass]_vars

\* C31: a custom identity class passed to the constructor as user_class is the
\* class of every resolved, anonymous and logout identity of that scope, whether
\* or not a serializer_class is passed too; when user_class is not passed the
\* class is AuthUser. No construction of an identity fails, and every identity
\* that load_user returns or that load_user or logout_user memoized is of that
\* class.
C31_UserClass ==
    \A r \in Slots, i \in Scopes :
        LET q == req[r]
            passed == app.ctors[i].user_class
            class == IF passed # None THEN passed ELSE "AuthUser"
        IN  q.stage = "open"
            => /\ q.exc # "TypeError"
               /\ q.exc = "none"
                    => /\ load_user_class(Ext(i), q).q.exc = "none"
                       /\ load_user_class(Ext(i), q).user["class"] = class
               /\ HasMemo(q, i) => Memo(q, i)["class"] = class

====
